---- MODULE Spec2Model ----
(***************************************************************************)
(* Model of the Reservation Manager of interpreter/integrations/           *)
(* agent_mail.py (class AgentMail): reserve_files, release_reservation and *)
(* get_active_reservations over the in-memory table self.reservations and  *)
(* the SQLite table "reservations".                                        *)
(*                                                                         *)
(* Time (datetime.utcnow()) is an integer clock `now`.  Reservation ids    *)
(* (str(uuid.uuid4())[:12]) are modelled as fresh naturals: the id of the  *)
(* k-th reservation created is k, so self.reservations (a dict, iterated   *)
(* in insertion order) is the sequence `reservations`.  Paths are Python   *)
(* strings, modelled as sequences of characters so that str.startswith is  *)
(* computed character by character.                                        *)
(*                                                                         *)
(* Model of the Issue Graph of the same file (class Beads): create_issue,  *)
(* update_issue and get_ready_issues over self.issues and the JSONL file   *)
(* issues.jsonl, with _load_issues as the replay of that file.  An issue   *)
(* id ("bd-" + sha256(title + utcnow().isoformat())[:6]) is a function of  *)
(* the title and the clock; the hash is modelled as injective, so that two *)
(* calls generate the same id exactly when they have the same title at the *)
(* same time.  self.issues (a dict) is the sequence `issues` of its values *)
(* in insertion order; a caller may name any id, stored or not, in         *)
(* `blocking`.                                                             *)
(***************************************************************************)
EXTENDS Integers, Sequences, FiniteSets, TLC

\* ---------------------------------------------------------------- bounds
MaxRes == 2       \* most reservations ever created in one run
MaxTime == 1      \* the clock runs from 0 to MaxTime
MaxLog == 4       \* most records ever appended to issues.jsonl in one run
MaxUuid == 4      \* most ids ever drawn for agents and messages in one run

\* ---------------------------------------------------------------- inputs
Agents == {"alice", "bob"}
Projects == {"default", "other"}

\* "/src/a.py", "/src/b.py" and "/src/b", a proper prefix of "/src/b.py"
SrcA == <<"/", "s", "r", "c", "/", "a", ".", "p", "y">>
SrcB == <<"/", "s", "r", "c", "/", "b", ".", "p", "y">>
SrcBPrefix == <<"/", "s", "r", "c", "/", "b">>

\* the `paths` arguments tried: the two lists of the alice/bob scenario and
\* a list that overlaps the second path of one of them and no path of the other
PathLists == { <<SrcA>>, <<SrcA, SrcB>>, <<SrcBPrefix>> }

\* ttl_seconds: 0 (expired at once) or one tick of the clock
TTLs == {0, 1}
ResIds == 1..(MaxRes + 1)
Threads == {"t1", "t2"}

\* ---------------------------------------------------------------- state
VARIABLES
    reservations,     \* self.reservations, in insertion order
    db_reservations,  \* rows of the SQLite table "reservations", by id
    now,              \* datetime.utcnow()
    result,           \* what the last completed call was and returned/raised
    threads,          \* position of each concurrent reserve_files call
    issues,           \* Beads.issues, in insertion order
    issues_log,       \* the lines of issues.jsonl
    agents,           \* self.agents, by name
    messages,         \* self.messages, the inbox of each name
    db_agents,        \* rows of the SQLite table "agents"
    db_messages,      \* rows of the SQLite table "messages"
    uuids,            \* how many uuid.uuid4() values agents and messages drew
    calls             \* position of each concurrent call on mailboxes or issues

\* the state of Beads
beads == <<issues, issues_log>>

\* the state of the registry and the mailboxes
mail == <<agents, messages, db_agents, db_messages, uuids, calls>>

vars == <<reservations, db_reservations, now, result, threads, issues, issues_log,
          agents, messages, db_agents, db_messages, uuids, calls>>

\* ReservationStatus
ACTIVE == "active"
EXPIRED == "expired"
RELEASED == "released"
ReservationStatus == {ACTIVE, EXPIRED, RELEASED}

\* str.startswith
startswith(s, prefix) ==
    /\ Len(prefix) <= Len(s)
    /\ SubSeq(s, 1, Len(prefix)) = prefix

\* AnyOverlap taking two paths of the same directory ("/src/") for overlapping
AnyOverlap_SameDirectory(path, respaths) ==
    \E k \in 1..Len(respaths) : SubSeq(respaths[k], 1, 5) = SubSeq(path, 1, 5)

\* AnyOverlap with only the test p.startswith(path)
AnyOverlap_OneWay(path, respaths) ==
    \E k \in 1..Len(respaths) : startswith(respaths[k], path)

\* any(p.startswith(path) or path.startswith(p) for p in res.paths)
AnyOverlap(path, respaths) ==
    \E k \in 1..Len(respaths) :
        startswith(respaths[k], path) \/ startswith(path, respaths[k])

\* RaisesOn testing `status != EXPIRED` in place of `status == ACTIVE`
RaisesOn_UnlessExpired(res, agent_name, paths) ==
    /\ res.status # EXPIRED
    /\ \E j \in 1..Len(paths) :
          /\ AnyOverlap(paths[j], res.paths)
          /\ res.agent_name # agent_name

\* RaisesOn without the test `res.agent_name != agent_name`
RaisesOn_AnyAgent(res, agent_name, paths) ==
    /\ res.status = ACTIVE
    /\ \E j \in 1..Len(paths) : AnyOverlap(paths[j], res.paths)

\* RaisesOn letting a reservation that is not exclusive be shared
RaisesOn_OnlyExclusive(res, agent_name, paths) ==
    /\ res.status = ACTIVE
    /\ res.exclusive
    /\ \E j \in 1..Len(paths) :
          /\ AnyOverlap(paths[j], res.paths)
          /\ res.agent_name # agent_name

\* the body of the conflict loop for one reservation `res`: true when the
\* loop raises on it
RaisesOn(res, agent_name, paths) ==
    /\ res.status = ACTIVE
    /\ \E j \in 1..Len(paths) :
          /\ AnyOverlap(paths[j], res.paths)
          /\ res.agent_name # agent_name

\* the conflict loop of reserve_files from position i of the table on: the
\* id of the first reservation it raises on, 0 when it runs to the end
RECURSIVE ConflictScan(_, _, _, _)
ConflictScan(table, i, agent_name, paths) ==
    IF i > Len(table) THEN 0
    ELSE IF RaisesOn(table[i], agent_name, paths) THEN i
    ELSE ConflictScan(table, i + 1, agent_name, paths)

\* FileReservation(...) as built by reserve_files at time t
NewReservation(id, project_key, agent_name, paths, exclusive, ttl_seconds, t) ==
    [ id |-> id,
      project_key |-> project_key,
      agent_name |-> agent_name,
      paths |-> paths,
      exclusive |-> exclusive,
      status |-> ACTIVE,
      created_at |-> t,
      expires_at |-> t + ttl_seconds,
      ttl_seconds |-> ttl_seconds ]

\* the row reserve_files INSERTs for a reservation
DbRow(r) ==
    [ id |-> r.id,
      project_key |-> r.project_key,
      agent_name |-> r.agent_name,
      paths |-> r.paths,
      exclusive |-> IF r.exclusive THEN 1 ELSE 0,
      status |-> r.status,
      created_at |-> r.created_at,
      expires_at |-> r.expires_at,
      ttl_seconds |-> r.ttl_seconds ]

NoPaths == <<>>

\* the record kept of the last completed call
Outcome(op, project_key, agent_name, paths, id, ok, exc, err_agent, err_paths, active) ==
    [ op |-> op, project_key |-> project_key, agent_name |-> agent_name,
      paths |-> paths, id |-> id, ok |-> ok, exc |-> exc,
      err_agent |-> err_agent, err_paths |-> err_paths, active |-> active ]

NoOutcome == Outcome("none", "", "", NoPaths, 0, TRUE, "none", "", NoPaths, <<>>)

\* ConflictOutcome formatting the requested paths in place of res.paths
ConflictOutcome_RequestedPaths(project_key, agent_name, paths, res) ==
    Outcome("reserve_files", project_key, agent_name, paths, 0, FALSE,
            "ValueError", res.agent_name, paths, <<>>)

\* raise ValueError(f"CONFLICT: {res.agent_name} has exclusive reservation on {res.paths}")
ConflictOutcome(project_key, agent_name, paths, res) ==
    Outcome("reserve_files", project_key, agent_name, paths, 0, FALSE,
            "ValueError", res.agent_name, res.paths, <<>>)

ReservedOutcome(r) ==
    Outcome("reserve_files", r.project_key, r.agent_name, r.paths, r.id, TRUE,
            "none", "", NoPaths, <<>>)

\* {} as a dict
EmptyDict == [key \in {} |-> key]

\* a thread that is not inside reserve_files
Idle ==
    [ pc |-> "idle", project_key |-> "", agent_name |-> "", paths |-> NoPaths,
      exclusive |-> TRUE, ttl_seconds |-> 0 ]

IdleThreads == [t \in Threads |-> Idle]

\* a thread that is not inside a call of the registry, the mailboxes or Beads;
\* local is the object a call has built or fetched
NotCalling == [ pc |-> "idle", op |-> "none", name |-> "", local |-> "None" ]

NoCalls == [t \in Threads |-> NotCalling]

Init ==
    /\ reservations = <<>>
    /\ db_reservations = <<>>
    /\ now = 0
    /\ result = NoOutcome
    /\ threads = IdleThreads
    /\ issues = <<>>
    /\ issues_log = <<>>
    /\ agents = EmptyDict
    /\ messages = EmptyDict
    /\ db_agents = <<>>
    /\ db_messages = <<>>
    /\ uuids = 0
    /\ calls = NoCalls

\* ---------------------------------------------------------------- actions

\* reserve_files sweeping the expired reservations before its conflict loop
reserve_files_SweepsFirst(project_key, agent_name, paths, exclusive, ttl_seconds) ==
    LET table == [i \in 1..Len(reservations) |->
                    IF reservations[i].status = ACTIVE /\ reservations[i].expires_at <= now
                    THEN [reservations[i] EXCEPT !.status = EXPIRED]
                    ELSE reservations[i]]
        c == ConflictScan(table, 1, agent_name, paths)
        r == NewReservation(Len(reservations) + 1, project_key, agent_name,
                            paths, exclusive, ttl_seconds, now)
    IN  IF c # 0
        THEN /\ result' = ConflictOutcome(project_key, agent_name, paths, table[c])
             /\ reservations' = table
             /\ UNCHANGED <<db_reservations, now, threads, issues, issues_log, mail>>
        ELSE /\ Len(reservations) < MaxRes
             /\ reservations' = Append(table, r)
             /\ db_reservations' = Append(db_reservations, DbRow(r))
             /\ result' = ReservedOutcome(r)
             /\ UNCHANGED <<now, threads, issues, issues_log, mail>>

\* AgentMail.reserve_files, run as one step
reserve_files(project_key, agent_name, paths, exclusive, ttl_seconds) ==
    LET c == ConflictScan(reservations, 1, agent_name, paths)
        r == NewReservation(Len(reservations) + 1, project_key, agent_name,
                            paths, exclusive, ttl_seconds, now)
    IN  IF c # 0
        THEN /\ result' = ConflictOutcome(project_key, agent_name, paths,
                                          reservations[c])
             /\ UNCHANGED <<reservations, db_reservations, now, threads, issues, issues_log, mail>>
        ELSE /\ Len(reservations) < MaxRes
             /\ reservations' = Append(reservations, r)
             /\ db_reservations' = Append(db_reservations, DbRow(r))
             /\ result' = ReservedOutcome(r)
             /\ UNCHANGED <<now, threads, issues, issues_log, mail>>

\* a caller of reserve_files, its arguments drawn from the given sets
ReserveIn(projects, pathlists, exclusives) ==
    \E project_key \in projects, agent_name \in Agents, paths \in pathlists,
       exclusive \in exclusives, ttl_seconds \in TTLs :
        reserve_files(project_key, agent_name, paths, exclusive, ttl_seconds)

\* exclusive: bool = True
DefaultExclusive == {TRUE}
\* the project the dashboard asks for: get_active_reservations('default')
DefaultProject == {"default"}

Reserve == ReserveIn(DefaultProject, PathLists, DefaultExclusive)

\* Released marking every reservation of the same agent
Released_AllOfAgent(table, reservation_id) ==
    IF reservation_id \in 1..Len(table)
    THEN [i \in 1..Len(table) |->
            IF table[i].agent_name = table[reservation_id].agent_name
            THEN [table[i] EXCEPT !.status = RELEASED]
            ELSE table[i]]
    ELSE table

\* the table after release_reservation(reservation_id)
Released(table, reservation_id) ==
    IF reservation_id \in 1..Len(table)
    THEN [table EXCEPT ![reservation_id].status = RELEASED]
    ELSE table

\* AgentMail.release_reservation
release_reservation(reservation_id) ==
    /\ reservations' = Released(reservations, reservation_id)
    /\ result' = Outcome("release_reservation", "", "", NoPaths, reservation_id,
                         reservation_id \in 1..Len(reservations),
                         "none", "", NoPaths, <<>>)
    /\ UNCHANGED <<db_reservations, now, threads, issues, issues_log, mail>>

Release == \E reservation_id \in ResIds : release_reservation(reservation_id)

\* Swept testing `expires_at >= now` in place of `expires_at > now`
Swept_StrictlyPast(res, project_key, t) ==
    IF res.project_key = project_key /\ res.status = ACTIVE /\ ~(res.expires_at >= t)
    THEN [res EXCEPT !.status = EXPIRED]
    ELSE res

\* Swept for the reservations of every project
Swept_AnyProject(res, project_key, t) ==
    IF res.status = ACTIVE /\ ~(res.expires_at > t)
    THEN [res EXCEPT !.status = EXPIRED]
    ELSE res

\* the loop of get_active_reservations applied to one reservation
Swept(res, project_key, t) ==
    IF res.project_key = project_key /\ res.status = ACTIVE /\ ~(res.expires_at > t)
    THEN [res EXCEPT !.status = EXPIRED]
    ELSE res

\* the list `active` built by get_active_reservations, as reservation ids
RECURSIVE ActiveList(_, _, _, _)
ActiveList(table, i, project_key, t) ==
    IF i > Len(table) THEN <<>>
    ELSE IF /\ table[i].project_key = project_key
            /\ table[i].status = ACTIVE
            /\ table[i].expires_at > t
         THEN <<i>> \o ActiveList(table, i + 1, project_key, t)
         ELSE ActiveList(table, i + 1, project_key, t)

\* AgentMail.get_active_reservations
get_active_reservations(project_key) ==
    /\ reservations' = [i \in 1..Len(reservations) |->
                            Swept(reservations[i], project_key, now)]
    /\ result' = Outcome("get_active_reservations", project_key, "", NoPaths,
                         0, TRUE, "none", "", NoPaths,
                         ActiveList(reservations, 1, project_key, now))
    /\ UNCHANGED <<db_reservations, now, threads, issues, issues_log, mail>>

GetActiveIn(projects) ==
    \E project_key \in projects : get_active_reservations(project_key)

GetActive == GetActiveIn(DefaultProject)

\* time passes between calls
Tick ==
    /\ now < MaxTime
    /\ now' = now + 1
    /\ UNCHANGED <<reservations, db_reservations, result, threads, issues, issues_log, mail>>

Next == Reserve \/ Release \/ GetActive \/ Tick

Spec == Init /\ [][Next]_vars

\* ------------------------------------------------- concurrent reserve_files
\* The dashboard serves requests from threads (SocketIO async_mode=
\* 'threading') and reserve_files takes no lock, so a second call can run
\* between the conflict loop of a call and its insertion into the table.

\* a thread enters reserve_files, asking for a lease that lasts
Call(t) ==
    /\ threads[t].pc = "idle"
    /\ \E agent_name \in Agents, paths \in PathLists, ttl_seconds \in TTLs \ {0} :
          threads' = [threads EXCEPT ![t] =
                        [ pc |-> "check", project_key |-> "default",
                          agent_name |-> agent_name, paths |-> paths,
                          exclusive |-> TRUE, ttl_seconds |-> ttl_seconds ]]
    /\ UNCHANGED <<reservations, db_reservations, now, result, issues, issues_log, mail>>

\* the conflict loop of the call of thread t
CheckConflicts(t) ==
    LET a == threads[t]
        c == ConflictScan(reservations, 1, a.agent_name, a.paths)
    IN  /\ a.pc = "check"
        /\ IF c # 0
           THEN /\ threads' = [threads EXCEPT ![t].pc = "raised"]
                /\ result' = ConflictOutcome(a.project_key, a.agent_name,
                                             a.paths, reservations[c])
           ELSE /\ threads' = [threads EXCEPT ![t].pc = "insert"]
                /\ UNCHANGED result
        /\ UNCHANGED <<reservations, db_reservations, now, issues, issues_log, mail>>

\* the rest of the call of thread t: build the reservation, insert it, save it
Insert(t) ==
    LET a == threads[t]
        r == NewReservation(Len(reservations) + 1, a.project_key, a.agent_name,
                            a.paths, a.exclusive, a.ttl_seconds, now)
    IN  /\ a.pc = "insert"
        /\ Len(reservations) < MaxRes
        /\ reservations' = Append(reservations, r)
        /\ db_reservations' = Append(db_reservations, DbRow(r))
        /\ result' = ReservedOutcome(r)
        /\ threads' = [threads EXCEPT ![t].pc = "returned"]
        /\ UNCHANGED <<now, issues, issues_log, mail>>

NextConcurrent ==
    \E t \in Threads : Call(t) \/ CheckConflicts(t) \/ Insert(t)

SpecConcurrent == Init /\ [][NextConcurrent]_vars

\* the same calls made for two projects, all for the same file
ReserveProjects == ReserveIn(Projects, {<<SrcA>>}, DefaultExclusive)
GetActiveProjects == GetActiveIn(Projects)
NextProjects == ReserveProjects \/ Release \/ GetActiveProjects \/ Tick
SpecProjects == Init /\ [][NextProjects]_vars

\* reserve_files called with exclusive=True and exclusive=False on the same
\* and on overlapping paths
ReserveSharedOrNot == ReserveIn(DefaultProject, { <<SrcA>>, <<SrcA, SrcB>> }, BOOLEAN)
NextExclusive == ReserveSharedOrNot \/ Release
SpecExclusive == Init /\ [][NextExclusive]_vars

\* ------------------------------------------------------------ Issue Graph

\* Optional[...] = None
None == "None"

\* IssueStatus: the members, by name
IssueStatus == {"BACKLOG", "READY", "IN_PROGRESS", "DONE", "BLOCKED"}

\* IssueStatus.<member>.value
StatusValue(member) ==
    CASE member = "BACKLOG" -> "backlog"
      [] member = "READY" -> "ready"
      [] member = "IN_PROGRESS" -> "in_progress"
      [] member = "DONE" -> "done"
      [] member = "BLOCKED" -> "blocked"

\* IssueStatus(value)
StatusOfValue(value) == CHOOSE member \in IssueStatus : StatusValue(member) = value

\* datetime.isoformat and datetime.fromisoformat
isoformat(t) == [iso |-> t]
fromisoformat(text) == text.iso

\* Beads._generate_id at time t: "bd-" and the digest of title + timestamp
generate_id(title, t) == <<"bd", title, isoformat(t)>>

\* `id in self.issues`
Has(store, id) == \E k \in 1..Len(store) : store[k].id = id

\* the position of self.issues[id] among the values of the dict
IndexOf(store, id) == CHOOSE k \in 1..Len(store) : store[k].id = id

\* self.issues[id]
Get(store, id) == store[IndexOf(store, id)]

\* Put emptying the dict before it stores the issue
Put_Alone(store, issue) == <<issue>>

\* self.issues[issue.id] = issue: a new key goes to the end of the dict, an
\* existing key keeps its place and gets the new value
Put(store, issue) ==
    IF Has(store, issue.id)
    THEN [store EXCEPT ![IndexOf(store, issue.id)] = issue]
    ELSE Append(store, issue)

\* Issue(id=..., title=..., description=..., priority=..., parent_id=...,
\* blocking=blocking or []) as built by create_issue at time t
NewIssue(id, title, description, priority, parent_id, blocking, t) ==
    [ id |-> id,
      title |-> title,
      description |-> description,
      status |-> "BACKLOG",
      priority |-> priority,
      parent_id |-> parent_id,
      blocking |-> blocking,
      blocked_by |-> <<>>,
      assignee |-> None,
      created_at |-> t,
      updated_at |-> t ]

\* LinkBlocked leaving the loop after the first id of the list
LinkBlocked_FirstOnly(store, blocking, k, id) ==
    IF k > Len(blocking) \/ k > 1 THEN store
    ELSE IF Has(store, blocking[k])
         THEN [store EXCEPT ![IndexOf(store, blocking[k])].blocked_by = Append(@, id)]
         ELSE store

\* the loop `for blocked_id in issue.blocking` of create_issue from position
\* k of the list on, for the new issue `id`
RECURSIVE LinkBlocked(_, _, _, _)
LinkBlocked(store, blocking, k, id) ==
    IF k > Len(blocking) THEN store
    ELSE IF Has(store, blocking[k])
         THEN LinkBlocked(
                [store EXCEPT ![IndexOf(store, blocking[k])].blocked_by = Append(@, id)],
                blocking, k + 1, id)
         ELSE LinkBlocked(store, blocking, k + 1, id)

\* the line _save_issue writes for an issue
IssueRecord(issue) ==
    [ id |-> issue.id,
      title |-> issue.title,
      description |-> issue.description,
      status |-> StatusValue(issue.status),
      priority |-> issue.priority,
      parent_id |-> issue.parent_id,
      blocking |-> issue.blocking,
      blocked_by |-> issue.blocked_by,
      assignee |-> issue.assignee,
      created_at |-> isoformat(issue.created_at),
      updated_at |-> isoformat(issue.updated_at) ]

\* the Issue _load_issues builds from a line
IssueOfRecord(data) ==
    [ id |-> data.id,
      title |-> data.title,
      description |-> data.description,
      status |-> StatusOfValue(data.status),
      priority |-> data.priority,
      parent_id |-> data.parent_id,
      blocking |-> data.blocking,
      blocked_by |-> data.blocked_by,
      assignee |-> data.assignee,
      created_at |-> fromisoformat(data.created_at),
      updated_at |-> fromisoformat(data.updated_at) ]

\* Beads._load_issues: self.issues after reading the lines from position k
\* on into store, each line stored under its id
RECURSIVE LoadIssues(_, _, _)
LoadIssues(store, lines, k) ==
    IF k > Len(lines) THEN store
    ELSE LoadIssues(Put(store, IssueOfRecord(lines[k])), lines, k + 1)

\* Created linking the referenced issues after the new issue is in the store
Created_InsertFirst(store, issue) ==
    LinkBlocked(Put(store, issue), issue.blocking, 1, issue.id)

\* self.issues after create_issue: the loop over issue.blocking, then
\* self.issues[issue.id] = issue
Created(store, issue) ==
    Put(LinkBlocked(store, issue.blocking, 1, issue.id), issue)

\* what a Beads call returned
IssueOutcome(op, id, ok, list) ==
    Outcome(op, "", "", NoPaths, id, ok, "none", "", NoPaths, list)

\* Beads.create_issue
create_issue(title, description, priority, parent_id, blocking) ==
    LET id == generate_id(title, now)
        issue == NewIssue(id, title, description, priority, parent_id, blocking, now)
    IN  /\ Len(issues_log) < MaxLog
        /\ issues' = Created(issues, issue)
        /\ issues_log' = Append(issues_log, IssueRecord(issue))
        /\ result' = IssueOutcome("create_issue", id, TRUE, <<>>)
        /\ UNCHANGED <<reservations, db_reservations, now, threads, mail>>

\* the titles of the issues created
Titles == {"a", "b", "c"}

\* the ids of the issues titled "a" and "b" created when the clock started
IdA == generate_id("a", 0)
IdB == generate_id("b", 0)

\* the `blocking` arguments tried: none, issue a, issue b, both; an id names
\* the issue created under it, whether it exists yet or not
BlockingLists == { <<>>, <<IdA>>, <<IdB>>, <<IdA, IdB>> }

\* a caller of create_issue with the default description, priority, parent_id
CreateIssueIn(titles, blockinglists) ==
    \E title \in titles, blocking \in blockinglists :
        create_issue(title, "", "medium", None, blocking)

CreateIssue == CreateIssueIn(Titles, BlockingLists)

\* issues a and b, created naming issue a or nothing
CreateBlockingOrNot == CreateIssueIn({"a", "b"}, { <<>>, <<IdA>> })

\* issues a and b, created naming issue a
CreateBlockingFirst == CreateIssueIn({"a", "b"}, { <<IdA>> })

\* `if status:` / `if assignee:` / `if priority:`
Truthy(x) == x # None /\ x # ""

\* Updated rebuilding the issue without its blocked_by
Updated_ResetsBlockedBy(issue, status, assignee, priority, t) ==
    [ issue EXCEPT
        !.status = IF Truthy(status) THEN status ELSE @,
        !.assignee = IF Truthy(assignee) THEN assignee ELSE @,
        !.priority = IF Truthy(priority) THEN priority ELSE @,
        !.blocked_by = <<>>,
        !.updated_at = t ]

\* Updated assigning assignee without the test `if assignee:`
Updated_AlwaysAssigns(issue, status, assignee, priority, t) ==
    [ issue EXCEPT
        !.status = IF Truthy(status) THEN status ELSE @,
        !.assignee = assignee,
        !.priority = IF Truthy(priority) THEN priority ELSE @,
        !.updated_at = t ]

\* the issue after the assignments of update_issue at time t
Updated(issue, status, assignee, priority, t) ==
    [ issue EXCEPT
        !.status = IF Truthy(status) THEN status ELSE @,
        !.assignee = IF Truthy(assignee) THEN assignee ELSE @,
        !.priority = IF Truthy(priority) THEN priority ELSE @,
        !.updated_at = t ]

\* update_issue saving a line for an id that is not in the store
update_issue_SavesNotFound(issue_id, status, assignee, priority) ==
    IF ~Has(issues, issue_id)
    THEN /\ Len(issues_log) < MaxLog
         /\ issues_log' = Append(issues_log,
                IssueRecord(NewIssue(issue_id, "", "", "medium", None, <<>>, now)))
         /\ result' = IssueOutcome("update_issue", issue_id, FALSE, <<>>)
         /\ UNCHANGED <<reservations, db_reservations, now, threads, issues, mail>>
    ELSE LET issue == Updated(Get(issues, issue_id), status, assignee, priority, now)
         IN  /\ Len(issues_log) < MaxLog
             /\ issues' = Put(issues, issue)
             /\ issues_log' = Append(issues_log, IssueRecord(issue))
             /\ result' = IssueOutcome("update_issue", issue_id, TRUE, <<>>)
             /\ UNCHANGED <<reservations, db_reservations, now, threads, mail>>

\* Beads.update_issue
update_issue(issue_id, status, assignee, priority) ==
    IF ~Has(issues, issue_id)
    THEN /\ result' = IssueOutcome("update_issue", issue_id, FALSE, <<>>)
         /\ UNCHANGED <<reservations, db_reservations, now, threads, issues, issues_log, mail>>
    ELSE LET issue == Updated(Get(issues, issue_id), status, assignee, priority, now)
         IN  /\ Len(issues_log) < MaxLog
             /\ issues' = Put(issues, issue)
             /\ issues_log' = Append(issues_log, IssueRecord(issue))
             /\ result' = IssueOutcome("update_issue", issue_id, TRUE, <<>>)
             /\ UNCHANGED <<reservations, db_reservations, now, threads, mail>>

\* an id no issue is created under
MissingId == generate_id("missing", 0)

\* the ids update_issue is called with: every stored id and one that is not
UpdateIds == { issues[k].id : k \in 1..Len(issues) } \cup {MissingId}

\* a caller of update_issue that sets the status
UpdateStatus ==
    \E issue_id \in UpdateIds, status \in IssueStatus :
        update_issue(issue_id, status, None, None)

\* IsReady without the test of the blockers
IsReady_IgnoresBlockers(store, issue) == issue.status = "READY"

\* IsReady testing `status != DONE` in place of `status == READY`
IsReady_NotDone(store, issue) ==
    /\ issue.status # "DONE"
    /\ \/ issue.blocked_by = <<>>
       \/ \A k \in 1..Len(issue.blocked_by) :
             Has(store, issue.blocked_by[k])
             => Get(store, issue.blocked_by[k]).status = "DONE"

\* the test of get_ready_issues on one issue of the store
IsReady(store, issue) ==
    /\ issue.status = "READY"
    /\ \/ issue.blocked_by = <<>>
       \/ \A k \in 1..Len(issue.blocked_by) :
             Has(store, issue.blocked_by[k])
             => Get(store, issue.blocked_by[k]).status = "DONE"

\* the list `ready` built by get_ready_issues from position i on, as ids
RECURSIVE ReadyList(_, _)
ReadyList(store, i) ==
    IF i > Len(store) THEN <<>>
    ELSE IF IsReady(store, store[i])
         THEN <<store[i].id>> \o ReadyList(store, i + 1)
         ELSE ReadyList(store, i + 1)

\* Beads.get_ready_issues
get_ready_issues ==
    /\ result' = IssueOutcome("get_ready_issues", 0, TRUE, ReadyList(issues, 1))
    /\ UNCHANGED <<reservations, db_reservations, now, threads, issues, issues_log, mail>>

\* a caller of update_issue that closes an issue
UpdateDone ==
    \E issue_id \in UpdateIds : update_issue(issue_id, "DONE", None, None)

\* Two issues going through every status, the ready frontier read in between.
NextBeads == CreateBlockingOrNot \/ UpdateStatus \/ get_ready_issues

SpecBeads == Init /\ [][NextBeads]_vars

\* Three issues created and created again under every list of `blocking`.
NextLinks == CreateIssue \/ UpdateDone

SpecLinks == Init /\ [][NextLinks]_vars

\* The calls of update_issue with each of its optional arguments left out
\* (None), given empty, and given, on issues a and b created naming a, while
\* the clock runs.
UpdateArgs ==
    { <<"DONE", None, None>>, <<None, "alice", "">>, <<"READY", "bob", "high">> }

UpdateFields ==
    \E issue_id \in UpdateIds, args \in UpdateArgs :
        update_issue(issue_id, args[1], args[2], args[3])

NextUpdate == CreateBlockingFirst \/ UpdateFields \/ Tick

SpecUpdate == Init /\ [][NextUpdate]_vars

\* ------------------------------------------------------------ list_issues

\* the three filters of list_issues with `blocked` keeping every issue that
\* has a blocked_by entry, whatever its status
Listed_AnyStatus(store, status, assignee, blocked) ==
    SelectSeq(store, LAMBDA i :
        /\ Truthy(status) => i.status = status
        /\ Truthy(assignee) => i.assignee = assignee
        /\ blocked => i.blocked_by # <<>>)

\* list(self.issues.values()) after the three filters of list_issues, each
\* applied when its argument is truthy
Listed(store, status, assignee, blocked) ==
    SelectSeq(store, LAMBDA i :
        /\ Truthy(status) => i.status = status
        /\ Truthy(assignee) => i.assignee = assignee
        /\ blocked => (i.status # "BLOCKED" /\ i.blocked_by # <<>>))

\* sorted(results, key=lambda i: i.created_at, reverse=True), of issues
\* created at t or before: the sort is stable
RECURSIVE sorted_issues(_, _)
sorted_issues(results, t) ==
    IF t < 0 THEN <<>>
    ELSE SelectSeq(results, LAMBDA i : i.created_at = t) \o sorted_issues(results, t - 1)

\* the ids of a list of issues
Ids(list) == [k \in 1..Len(list) |-> list[k].id]

\* Beads.list_issues; the result records the arguments as id and holds the
\* ids of the issues returned
list_issues(status, assignee, blocked) ==
    /\ result' = IssueOutcome("list_issues", <<status, assignee, blocked>>, TRUE,
                              Ids(sorted_issues(Listed(issues, status, assignee, blocked),
                                                now)))
    /\ UNCHANGED <<reservations, db_reservations, now, threads, issues, issues_log, mail>>

\* the filters tried: none, a status with an empty assignee, an assignee,
\* blocked, and the three together
ListArgs ==
    { <<None, None, FALSE>>, <<"BACKLOG", "", FALSE>>, <<None, "alice", FALSE>>,
      <<None, None, TRUE>>, <<"BACKLOG", "alice", TRUE>> }

List == \E args \in ListArgs : list_issues(args[1], args[2], args[3])

\* the updates that make the filters tell issues apart
ListUpdates == { <<"BLOCKED", None, None>>, <<"READY", "alice", None>> }

UpdateToList ==
    \E k \in 1..Len(issues), args \in ListUpdates :
        update_issue(issues[k].id, args[1], args[2], args[3])

NextList == CreateBlockingFirst \/ UpdateToList \/ List \/ Tick

SpecList == Init /\ [][NextList]_vars

\* ------------------------------------------------- failing durable writes
\* sqlite3 (execute/commit) and open(..., 'a')/write can raise; the exception
\* leaves the call at the statement that raised.

\* a call ended by an exception of the durable write
WriteFailed(op, id, exc) ==
    Outcome(op, "", "", NoPaths, id, FALSE, exc, "", NoPaths, <<>>)

\* reserve_files whose INSERT INTO reservations raises
reserve_files_write_fails(project_key, agent_name, paths, exclusive, ttl_seconds) ==
    LET c == ConflictScan(reservations, 1, agent_name, paths)
        r == NewReservation(Len(reservations) + 1, project_key, agent_name,
                            paths, exclusive, ttl_seconds, now)
    IN  /\ c = 0
        /\ Len(reservations) < MaxRes
        /\ reservations' = Append(reservations, r)
        /\ result' = WriteFailed("reserve_files", r.id, "sqlite3.Error")
        /\ UNCHANGED <<db_reservations, now, threads, issues, issues_log, mail>>

ReserveWriteFails ==
    \E agent_name \in Agents, ttl_seconds \in TTLs :
        reserve_files_write_fails("default", agent_name, <<SrcA>>, TRUE, ttl_seconds)

\* create_issue whose _save_issue raises; the calls stop when a blocked_by
\* list has MaxLog entries
create_issue_write_fails(title, description, priority, parent_id, blocking) ==
    LET id == generate_id(title, now)
        issue == NewIssue(id, title, description, priority, parent_id, blocking, now)
    IN  /\ \A k \in 1..Len(issues) : Len(issues[k].blocked_by) < MaxLog
        /\ issues' = Created(issues, issue)
        /\ result' = WriteFailed("create_issue", id, "OSError")
        /\ UNCHANGED <<reservations, db_reservations, now, threads, issues_log, mail>>

CreateWriteFails ==
    \E title \in {"a", "b"} : create_issue_write_fails(title, "", "medium", None, <<IdA>>)

\* update_issue of a stored issue whose _save_issue raises
update_issue_write_fails(issue_id, status, assignee, priority) ==
    /\ Has(issues, issue_id)
    /\ issues' = Put(issues, Updated(Get(issues, issue_id), status, assignee, priority, now))
    /\ result' = WriteFailed("update_issue", issue_id, "OSError")
    /\ UNCHANGED <<reservations, db_reservations, now, threads, issues_log, mail>>

UpdateWriteFails ==
    \E issue_id \in UpdateIds : update_issue_write_fails(issue_id, "READY", None, None)

\* the calls with a durable store that may fail
ReserveOneFile == ReserveIn(DefaultProject, {<<SrcA>>}, DefaultExclusive)

NextWriteFails ==
    \/ ReserveOneFile \/ ReserveWriteFails
    \/ CreateBlockingFirst \/ CreateWriteFails
    \/ UpdateWriteFails

SpecWriteFails == Init /\ [][NextWriteFails]_vars

\* ------------------------------------------------------------ Agent Mail

\* str(uuid.uuid4())[:12]: the n-th value drawn
uuid4(n) == "uuid-" \o ToString(n)

\* d[key] = value on a dict
Assigned(d, key, value) ==
    [k \in DOMAIN d \cup {key} |-> IF k = key THEN value ELSE d[k]]

\* json.dumps
json_dumps(value) == [json |-> value]

\* Agent(id=..., name=..., project_key=..., program=..., model=...,
\* capabilities=capabilities or []) as built by register_agent at time t
NewAgent(id, name, project_key, program, model, capabilities, t) ==
    [ id |-> id,
      name |-> name,
      project_key |-> project_key,
      program |-> program,
      model |-> model,
      capabilities |-> capabilities,
      registered_at |-> t,
      last_active |-> t ]

\* the row register_agent writes for an agent
AgentRow(agent) ==
    [ id |-> agent.id,
      name |-> agent.name,
      project_key |-> agent.project_key,
      program |-> agent.program,
      model |-> agent.model,
      capabilities |-> json_dumps(agent.capabilities),
      registered_at |-> isoformat(agent.registered_at),
      last_active |-> isoformat(agent.last_active) ]

\* INSERT OR REPLACE INTO agents: the rows with the same id (PRIMARY KEY) or
\* the same name (UNIQUE) go, the new row is added
InsertOrReplace(table, row) ==
    Append(SelectSeq(table, LAMBDA old : old.id # row.id /\ old.name # row.name), row)

\* `if name not in self.messages: self.messages[name] = []`
WithInbox(boxes, name) ==
    IF name \in DOMAIN boxes THEN boxes ELSE Assigned(boxes, name, <<>>)

\* what a registry or mailbox call returned
MailOutcome(op, project_key, agent_name, id, list) ==
    Outcome(op, project_key, agent_name, NoPaths, id, TRUE, "none", "", NoPaths, list)

\* AgentMail.register_agent
register_agent(name, project_key, program, model, capabilities) ==
    LET agent == NewAgent(uuid4(uuids + 1), name, project_key, program, model,
                          capabilities, now)
    IN  /\ uuids < MaxUuid
        /\ uuids' = uuids + 1
        /\ agents' = Assigned(agents, name, agent)
        /\ db_agents' = InsertOrReplace(db_agents, AgentRow(agent))
        /\ messages' = WithInbox(messages, name)
        /\ result' = MailOutcome("register_agent", project_key, name, agent.id, <<>>)
        /\ UNCHANGED <<reservations, db_reservations, now, threads, issues, issues_log,
                       db_messages, calls>>

\* a caller of register_agent with the default model and no capabilities
RegisterIn(names, programs) ==
    \E name \in names, program \in programs :
        register_agent(name, "default", program, "opus", <<>>)

\* Message(id=..., thread_id=thread_id or str(uuid.uuid4())[:12],
\* created_at=datetime.utcnow()) as built by send_message at time t, after
\* n values of uuid4 were drawn
NewMessage(n, project_key, sender, recipient, subject, body, thread_id, t) ==
    [ id |-> uuid4(n + 1),
      project_key |-> project_key,
      sender |-> sender,
      recipient |-> recipient,
      subject |-> subject,
      body |-> body,
      thread_id |-> IF Truthy(thread_id) THEN thread_id ELSE uuid4(n + 2),
      created_at |-> t,
      read |-> FALSE ]

\* the values of uuid4 that building the message draws
Drawn(thread_id) == IF Truthy(thread_id) THEN 1 ELSE 2

\* the row send_message writes for a message
MessageRow(message) ==
    [ id |-> message.id,
      project_key |-> message.project_key,
      sender |-> message.sender,
      recipient |-> message.recipient,
      subject |-> message.subject,
      body |-> message.body,
      thread_id |-> message.thread_id,
      created_at |-> isoformat(message.created_at),
      read |-> 0 ]

\* Delivered putting a copy in the inbox of the sender as well
Delivered_CopyToSender(boxes, recipient, message) ==
    LET to == WithInbox(boxes, recipient)
        both == [to EXCEPT ![recipient] = Append(@, message)]
        from == WithInbox(both, message.sender)
    IN  IF message.sender = recipient THEN both
        ELSE [from EXCEPT ![message.sender] = Append(@, message)]

\* self.messages after the message is added to the inbox of the recipient
Delivered(boxes, recipient, message) ==
    [WithInbox(boxes, recipient) EXCEPT ![recipient] = Append(@, message)]

\* AgentMail.send_message
send_message(project_key, sender, recipient, subject, body, thread_id) ==
    LET message == NewMessage(uuids, project_key, sender, recipient, subject, body,
                              thread_id, now)
    IN  /\ uuids + Drawn(thread_id) <= MaxUuid
        /\ uuids' = uuids + Drawn(thread_id)
        /\ messages' = Delivered(messages, recipient, message)
        /\ db_messages' = Append(db_messages, MessageRow(message))
        /\ result' = MailOutcome("send_message", project_key, recipient, message.id, <<>>)
        /\ UNCHANGED <<reservations, db_reservations, now, threads, issues, issues_log,
                       agents, db_agents, calls>>

\* the thread_id arguments tried: left out, and given
ThreadIds == {None, "thread-1"}

\* a caller of send_message
SendIn(senders, recipients, threadids) ==
    \E sender \in senders, recipient \in recipients, thread_id \in threadids :
        send_message("default", sender, recipient, "subject", "body", thread_id)

\* since_ts: Optional[datetime] = None
NoTime == 0 - 1

\* Since keeping the messages created after since_ts only
Since_After(inbox, since_ts) ==
    IF since_ts # NoTime
    THEN SelectSeq(inbox, LAMBDA m : m.created_at > since_ts)
    ELSE inbox

\* `if since_ts: inbox = [m for m in inbox if m.created_at >= since_ts]`
Since(inbox, since_ts) ==
    IF since_ts # NoTime
    THEN SelectSeq(inbox, LAMBDA m : m.created_at >= since_ts)
    ELSE inbox

\* the list reversed
RECURSIVE Reversed(_)
Reversed(list) ==
    IF list = <<>> THEN <<>> ELSE Append(Reversed(Tail(list)), Head(list))

\* the messages of the list created at time t, in the order of the list
CreatedAt(inbox, t) == SelectSeq(inbox, LAMBDA m : m.created_at = t)

\* sorted_by_created_at sorting upwards and reversing the result
RECURSIVE sorted_by_created_at_ThenReversed(_, _)
sorted_by_created_at_ThenReversed(inbox, t) ==
    IF t < 0 THEN <<>>
    ELSE Reversed(CreatedAt(inbox, t)) \o sorted_by_created_at_ThenReversed(inbox, t - 1)

\* sorted(inbox, key=lambda m: m.created_at, reverse=True) for messages
\* created at t or before: latest first, messages of the same time in the
\* order of the list (the sort is stable, also with reverse=True)
RECURSIVE sorted_by_created_at(_, _)
sorted_by_created_at(inbox, t) ==
    IF t < 0 THEN <<>>
    ELSE CreatedAt(inbox, t) \o sorted_by_created_at(inbox, t - 1)

\* self.messages.get(agent_name, [])
InboxOf(boxes, agent_name) ==
    IF agent_name \in DOMAIN boxes THEN boxes[agent_name] ELSE <<>>

\* fetch_inbox reading self.messages as a defaultdict would: the inbox of
\* an unknown agent comes into being
fetch_inbox_CreatesInbox(agent_name, since_ts) ==
    /\ result' = MailOutcome("fetch_inbox", "", agent_name, since_ts,
                             sorted_by_created_at(
                                 Since(InboxOf(messages, agent_name), since_ts), now))
    /\ messages' = WithInbox(messages, agent_name)
    /\ UNCHANGED <<reservations, db_reservations, now, threads, issues, issues_log,
                   agents, db_agents, db_messages, uuids, calls>>

\* AgentMail.fetch_inbox; the result records since_ts as id
fetch_inbox(agent_name, since_ts) ==
    /\ result' = MailOutcome("fetch_inbox", "", agent_name, since_ts,
                             sorted_by_created_at(
                                 Since(InboxOf(messages, agent_name), since_ts), now))
    /\ UNCHANGED <<reservations, db_reservations, now, threads, issues, issues_log, mail>>

\* a caller of fetch_inbox, with and without since_ts
FetchIn(names) ==
    \E agent_name \in names, since_ts \in {NoTime} \cup (0..MaxTime) :
        fetch_inbox(agent_name, since_ts)

\* bob registers, alice writes to bob and to herself, both read their
\* inboxes, while the clock runs
RegisterBob == RegisterIn({"bob"}, {"claude"})
Send == SendIn({"alice"}, Agents, ThreadIds)
Fetch == FetchIn(Agents)

NextMail == RegisterBob \/ Send \/ Fetch \/ Tick

SpecMail == Init /\ [][NextMail]_vars

\* alice and bob and a caller without a name register and register again,
\* with one program or another, bob gets mail, while the clock runs
NoName == ""
Register == RegisterIn(Agents \cup {NoName}, {"claude", "codex"})
SendToBob == SendIn({"alice"}, {"bob"}, {"thread-1"})

NextRegister == Register \/ SendToBob \/ Tick

SpecRegister == Init /\ [][NextRegister]_vars

\* ------------------------------------- concurrent mailbox mutations
\* register_agent and send_message take no lock, and the dashboard and the
\* API serve requests from threads: between the test "not in self.messages"
\* and the assignment of the empty inbox, and between that assignment and
\* the append, another call can run.

\* the other variables of the program, which no mail call touches
others == <<reservations, db_reservations, now, threads, issues, issues_log>>

\* thread t is between two calls
Free(t) == calls[t].pc \in {"idle", "returned"}

\* thread t enters send_message and builds the Message (lines 223-232)
SendCall(t) ==
    /\ Free(t)
    /\ uuids + 1 <= MaxUuid
    /\ \E recipient \in {"bob"} :
          LET message == NewMessage(uuids, "default", "alice", recipient,
                                    "subject", "body", "thread-1", now)
          IN  calls' = [calls EXCEPT ![t] =
                          [ pc |-> "inbox", op |-> "send_message",
                            name |-> recipient, local |-> message ]]
    /\ uuids' = uuids + 1
    /\ UNCHANGED <<others, result, agents, messages, db_agents, db_messages>>

\* thread t enters register_agent: the agent is built, assigned and saved
\* (lines 179-205)
RegisterCall(t) ==
    /\ Free(t)
    /\ uuids < MaxUuid
    /\ \E name \in {"bob"} :
          LET agent == NewAgent(uuid4(uuids + 1), name, "default", "claude", "opus",
                                <<>>, now)
          IN  /\ agents' = Assigned(agents, name, agent)
              /\ db_agents' = InsertOrReplace(db_agents, AgentRow(agent))
              /\ calls' = [calls EXCEPT ![t] =
                             [ pc |-> "inbox", op |-> "register_agent",
                               name |-> name, local |-> agent.id ]]
    /\ uuids' = uuids + 1
    /\ UNCHANGED <<others, result, messages, db_messages>>

\* "if name not in self.messages:" of either call (lines 235, 208)
TestInbox(t) ==
    LET c == calls[t]
    IN  /\ c.pc = "inbox"
        /\ calls' = [calls EXCEPT ![t].pc =
                        IF c.name \notin DOMAIN messages THEN "create"
                        ELSE IF c.op = "send_message" THEN "append"
                        ELSE "return"]
        /\ UNCHANGED <<others, result, agents, messages, db_agents, db_messages, uuids>>

\* "self.messages[name] = []" of either call (lines 236, 209)
CreateInbox(t) ==
    LET c == calls[t]
    IN  /\ c.pc = "create"
        /\ messages' = Assigned(messages, c.name, <<>>)
        /\ calls' = [calls EXCEPT ![t].pc =
                        IF c.op = "send_message" THEN "append" ELSE "return"]
        /\ UNCHANGED <<others, result, agents, db_agents, db_messages, uuids>>

\* the append of send_message, its INSERT and its return (lines 237-254)
AppendMessage(t) ==
    LET c == calls[t]
    IN  /\ c.pc = "append"
        /\ c.name \in DOMAIN messages
        /\ messages' = [messages EXCEPT ![c.name] = Append(@, c.local)]
        /\ db_messages' = Append(db_messages, MessageRow(c.local))
        /\ result' = MailOutcome("send_message", "default", c.name, c.local.id, <<>>)
        /\ calls' = [calls EXCEPT ![t].pc = "returned"]
        /\ UNCHANGED <<others, agents, db_agents, uuids>>

\* the return of register_agent (line 211)
ReturnAgent(t) ==
    LET c == calls[t]
    IN  /\ c.pc = "return"
        /\ result' = MailOutcome("register_agent", "default", c.name, c.local, <<>>)
        /\ calls' = [calls EXCEPT ![t].pc = "returned"]
        /\ UNCHANGED <<others, agents, messages, db_agents, db_messages, uuids>>

NextMailbox ==
    \E t \in Threads :
        \/ SendCall(t)
        \/ RegisterCall(t)
        \/ TestInbox(t)
        \/ CreateInbox(t)
        \/ AppendMessage(t)
        \/ ReturnAgent(t)

SpecMailbox == Init /\ [][NextMailbox]_vars

\* --------------------------------------------- concurrent issue calls
\* Beads takes no lock either: a call can run between the blocked_by loop
\* of create_issue and its save, and between the assignments of
\* update_issue and its save.

\* the other variables of the program, which no Beads call touches
apart == <<reservations, db_reservations, now, threads, agents, messages,
           db_agents, db_messages, uuids>>

\* how many calls are under way
UnderWay == Cardinality({ t \in Threads : ~Free(t) })

\* the first issue is created, while no other call runs
CreateFirst ==
    /\ issues = <<>>
    /\ UnderWay = 0
    /\ create_issue("a", "", "medium", None, <<>>)

\* thread t enters create_issue with a title no call is creating, naming
\* the first issue in blocking, and builds the Issue (lines 440-447)
CreateCall(t) ==
    /\ Free(t)
    /\ issues # <<>>
    /\ Len(issues_log) + UnderWay < MaxLog
    /\ \E title \in {"b", "c"} :
          LET id == generate_id(title, now)
              issue == NewIssue(id, title, "", "medium", None, <<issues[1].id>>, now)
          IN  /\ ~Has(issues, id)
              /\ \A u \in Threads :
                    ~(~Free(u) /\ calls[u].op = "create_issue" /\ calls[u].name = title)
              /\ calls' = [calls EXCEPT ![t] =
                             [ pc |-> "link", op |-> "create_issue",
                               name |-> title, local |-> issue ]]
    /\ UNCHANGED <<apart, result, issues, issues_log>>

\* the blocked_by loop of create_issue (lines 450-452)
LinkIssue(t) ==
    LET c == calls[t]
    IN  /\ c.pc = "link"
        /\ issues' = LinkBlocked(issues, c.local.blocking, 1, c.local.id)
        /\ calls' = [calls EXCEPT ![t].pc = "insert"]
        /\ UNCHANGED <<apart, result, issues_log>>

\* the insertion of the new issue, its save and the return (lines 454-457)
InsertIssue(t) ==
    LET c == calls[t]
    IN  /\ c.pc = "insert"
        /\ issues' = Put(issues, c.local)
        /\ issues_log' = Append(issues_log, IssueRecord(c.local))
        /\ result' = IssueOutcome("create_issue", c.local.id, TRUE, <<>>)
        /\ calls' = [calls EXCEPT ![t].pc = "returned"]
        /\ UNCHANGED apart

\* thread t enters update_issue on the first issue and assigns the fields
\* and updated_at (lines 467-480)
UpdateCall(t) ==
    /\ Free(t)
    /\ issues # <<>>
    /\ Len(issues_log) + UnderWay < MaxLog
    /\ issues' = Put(issues, Updated(issues[1], None, "alice", None, now))
    /\ calls' = [calls EXCEPT ![t] =
                    [ pc |-> "save", op |-> "update_issue",
                      name |-> "a", local |-> issues[1].id ]]
    /\ UNCHANGED <<apart, result, issues_log>>

\* the save of update_issue, which writes the issue as it is now, and the
\* return (lines 483-484)
SaveUpdated(t) ==
    LET c == calls[t]
    IN  /\ c.pc = "save"
        /\ issues_log' = Append(issues_log, IssueRecord(Get(issues, c.local)))
        /\ result' = IssueOutcome("update_issue", c.local, TRUE, <<>>)
        /\ calls' = [calls EXCEPT ![t].pc = "returned"]
        /\ UNCHANGED <<apart, issues>>

NextIssues ==
    \/ CreateFirst
    \/ Tick
    \/ \E t \in Threads :
          \/ CreateCall(t)
          \/ LinkIssue(t)
          \/ InsertIssue(t)
          \/ UpdateCall(t)
          \/ SaveUpdated(t)

SpecIssues == Init /\ [][NextIssues]_vars

\* ---------------------------------------------------------------- claims

\* the state as far as a step can be told from a stuttering step: every
\* variable a call assigns, and of the result what every call records in
\* the same way (the id is a number, a string or an issue id)
observed ==
    <<reservations, db_reservations, now, threads, issues, issues_log,
      agents, messages, db_agents, db_messages, uuids,
      result.op, result.ok, result.exc, result.agent_name, result.project_key>>

\* p is a prefix of q, or equal to it
IsPrefixOf(p, q) == \E k \in 0..Len(q) : p = SubSeq(q, 1, k)

\* some path of one list is a prefix of, or equal to, some path of the other
PathsOverlap(P, Q) ==
    \E i \in 1..Len(P), j \in 1..Len(Q) :
        IsPrefixOf(P[i], Q[j]) \/ IsPrefixOf(Q[j], P[i])

HeldIds == 1..Len(reservations)

Unexpired(r) == now < r.expires_at

\* C1: in every reachable state no two reservations held by different
\* agents are both status=active, both unexpired (now < expires_at) and
\* have overlapping path sets.
C1_NoOverlappingActive ==
    \A i, j \in HeldIds :
        ( /\ reservations[i].agent_name # reservations[j].agent_name
          /\ reservations[i].status = ACTIVE /\ Unexpired(reservations[i])
          /\ reservations[j].status = ACTIVE /\ Unexpired(reservations[j]) )
        => ~PathsOverlap(reservations[i].paths, reservations[j].paths)

\* two agents hold active, unexpired reservations side by side, and a
\* reserve_files call has just been refused
C1_Witness ==
    /\ \E i, j \in HeldIds :
          /\ reservations[i].agent_name # reservations[j].agent_name
          /\ reservations[i].status = ACTIVE /\ Unexpired(reservations[i])
          /\ reservations[j].status = ACTIVE /\ Unexpired(reservations[j])
    /\ result.op = "reserve_files" /\ ~result.ok

\* C2: when two reserve_files calls by different agents with overlapping
\* paths run concurrently, at most one of them succeeds.
C2_AtMostOneSucceeds ==
    \A t1, t2 \in Threads :
        ( /\ t1 # t2
          /\ threads[t1].agent_name # threads[t2].agent_name
          /\ PathsOverlap(threads[t1].paths, threads[t2].paths) )
        => ~(threads[t1].pc = "returned" /\ threads[t2].pc = "returned")

\* Every call records itself in result and leaves the clock alone, and
\* Tick leaves result alone: a step that does not move the clock is the call
\* named by result'.op, made with the arguments recorded in result'.
ReserveStep == now' = now /\ result'.op = "reserve_files"
ReleaseStep == now' = now /\ result'.op = "release_reservation"
GetActiveStep == now' = now /\ result'.op = "get_active_reservations"

\* reservation i is held by an agent other than `agent_name`, has status
\* active and a path set overlapping `paths`
OtherActiveOverlap(i, agent_name, paths) ==
    /\ reservations[i].agent_name # agent_name
    /\ reservations[i].status = ACTIVE
    /\ PathsOverlap(reservations[i].paths, paths)

\* C3: if A holds an active, unexpired reservation with a path that is a
\* prefix of or equal to a path B != A asks for, B's reserve_files fails
\* with a ConflictError and creates no reservation.
C3_OverlapRaisesConflictError ==
    ( /\ result.op = "reserve_files"
      /\ \E i \in HeldIds \ {result.id} :
            /\ reservations[i].agent_name # result.agent_name
            /\ reservations[i].status = ACTIVE /\ Unexpired(reservations[i])
            /\ \E k \in 1..Len(reservations[i].paths), j \in 1..Len(result.paths) :
                  IsPrefixOf(reservations[i].paths[k], result.paths[j]) )
    => ( /\ ~result.ok
         /\ result.id = 0
         /\ result.exc = "ConflictError" )

\* C4: a reservation whose expires_at has passed does not block a new
\* overlapping reserve_files call by a different agent: when every
\* reservation of another agent that overlaps the request has expired, the
\* call succeeds, swept or not.
C4_ExpiredDoesNotBlock ==
    [][ ( /\ ReserveStep
          /\ \A i \in HeldIds :
                OtherActiveOverlap(i, result'.agent_name, result'.paths)
                => reservations[i].expires_at <= now )
        => result'.ok ]_vars

\* C5: after release_reservation(r) on agent A's reservation r, an
\* immediately following reserve_files by another agent B on paths
\* overlapping r's succeeds, provided no other agent's reservation with
\* status active overlaps those paths.
C5_ReleaseThenReserve ==
    [][ ( /\ result.op = "release_reservation" /\ result.ok
          /\ ReserveStep
          /\ reservations[result.id].agent_name # result'.agent_name
          /\ PathsOverlap(reservations[result.id].paths, result'.paths)
          /\ \A i \in HeldIds :
                ~OtherActiveOverlap(i, result'.agent_name, result'.paths) )
        => ( /\ result'.ok
             /\ Len(reservations') = Len(reservations) + 1
             /\ result'.id = Len(reservations')
             /\ reservations'[result'.id].status = ACTIVE
             /\ reservations'[result'.id].agent_name = result'.agent_name
             /\ reservations'[result'.id].paths = result'.paths ) ]_vars

\* B holds a new active reservation overlapping one of A that is released
C5_Witness ==
    /\ result.op = "reserve_files" /\ result.ok
    /\ reservations[result.id].status = ACTIVE
    /\ \E i \in HeldIds :
          /\ reservations[i].status = RELEASED
          /\ reservations[i].agent_name # result.agent_name
          /\ PathsOverlap(reservations[i].paths, result.paths)

\* C6: if every reservation with status active that overlaps the paths A
\* asks for belongs to A, reserve_files succeeds, adds a new active
\* reservation and leaves every earlier reservation unchanged.
C6_OwnReservationNeverBlocks ==
    [][ ( /\ ReserveStep
          /\ \A i \in HeldIds :
                ~OtherActiveOverlap(i, result'.agent_name, result'.paths) )
        => ( /\ result'.ok
             /\ Len(reservations') = Len(reservations) + 1
             /\ \A i \in HeldIds : reservations'[i] = reservations[i]
             /\ result'.id = Len(reservations')
             /\ reservations'[result'.id].status = ACTIVE
             /\ reservations'[result'.id].agent_name = result'.agent_name
             /\ reservations'[result'.id].paths = result'.paths ) ]_vars

\* A re-reserved paths overlapping its own earlier, still active reservation
C6_Witness ==
    /\ result.op = "reserve_files" /\ result.ok
    /\ \E i \in HeldIds \ {result.id} :
          /\ reservations[i].agent_name = result.agent_name
          /\ reservations[i].status = ACTIVE
          /\ PathsOverlap(reservations[i].paths, result.paths)

\* C7: whenever reserve_files fails with a conflict, the error names an
\* agent other than the caller that holds an active reservation overlapping
\* the requested paths, together with that reservation's path set.
C7_ConflictNamesHolder ==
    (result.op = "reserve_files" /\ ~result.ok)
    => ( /\ result.err_agent # result.agent_name
         /\ \E i \in HeldIds :
               /\ reservations[i].agent_name = result.err_agent
               /\ reservations[i].paths = result.err_paths
               /\ reservations[i].status = ACTIVE
               /\ PathsOverlap(reservations[i].paths, result.paths) )

\* the alice/bob scenario: bob asks for ["/src/a.py", "/src/b.py"] and the
\* error names alice and ["/src/a.py"]
C7_Witness ==
    /\ result.op = "reserve_files" /\ ~result.ok
    /\ result.agent_name = "bob" /\ result.paths = <<SrcA, SrcB>>
    /\ result.err_agent = "alice" /\ result.err_paths = <<SrcA>>

\* the ids that get_active_reservations(project_key) is to return at time t
ActiveUnexpiredIds(project_key, t) ==
    { i \in HeldIds : /\ reservations[i].project_key = project_key
                      /\ reservations[i].status = ACTIVE
                      /\ reservations[i].expires_at > t }

\* the result lists exactly the ids of S, each once
ListsExactly(list, S) ==
    /\ Len(list) = Cardinality(S)
    /\ { list[k] : k \in 1..Len(list) } = S

\* C8 as stated: get_active_reservations(project_key) at time now flips to
\* expired every reservation that is active with expires_at <= now, and
\* returns exactly the reservations of that project that are active with
\* expires_at > now.
C8_SweepsEveryReservation ==
    [][ GetActiveStep
        => ( /\ \A i \in HeldIds :
                  (reservations[i].status = ACTIVE /\ reservations[i].expires_at <= now)
                  => reservations'[i].status = EXPIRED
             /\ ListsExactly(result'.active,
                             ActiveUnexpiredIds(result'.project_key, now)) ) ]_vars

\* C8 amended: get_active_reservations(project_key) at time now flips to
\* expired every reservation of that project that is active with
\* expires_at <= now, changes nothing else, and returns exactly the
\* reservations of that project that are active with expires_at > now.
C8_SweepsProject ==
    [][ GetActiveStep
        => ( /\ Len(reservations') = Len(reservations)
             /\ \A i \in HeldIds :
                  IF /\ reservations[i].project_key = result'.project_key
                     /\ reservations[i].status = ACTIVE
                     /\ reservations[i].expires_at <= now
                  THEN reservations'[i] = [reservations[i] EXCEPT !.status = EXPIRED]
                  ELSE reservations'[i] = reservations[i]
             /\ ListsExactly(result'.active,
                             ActiveUnexpiredIds(result'.project_key, now))
             /\ \A k \in 1..Len(result'.active) :
                  /\ reservations'[result'.active[k]].status = ACTIVE
                  /\ reservations'[result'.active[k]].project_key = result'.project_key ) ]_vars

\* the read has flipped a reservation of its project and has left one of
\* the other project active past its expiry
C8_Witness ==
    /\ result.op = "get_active_reservations"
    /\ \E i, j \in HeldIds :
          /\ reservations[i].project_key = result.project_key
          /\ reservations[i].status = EXPIRED
          /\ reservations[j].project_key # result.project_key
          /\ reservations[j].status = ACTIVE
          /\ reservations[j].expires_at <= now

\* C9: the only status changes of a reservation are active -> released by
\* release_reservation and active -> expired by get_active_reservations
\* when now >= expires_at; a released or expired reservation never changes
\* status again.
C9_OnlyFromActive ==
    [][ \A i \in HeldIds :
          reservations'[i].status # reservations[i].status
          => ( /\ reservations[i].status = ACTIVE
               /\ \/ /\ reservations'[i].status = RELEASED
                     /\ result'.op = "release_reservation"
                  \/ /\ reservations'[i].status = EXPIRED
                     /\ result'.op = "get_active_reservations"
                     /\ now >= reservations[i].expires_at ) ]_vars

\* C10: release_reservation(id) returns false and changes no state when id
\* is unknown; for a known id it sets that reservation's status to released
\* and returns true, changing no other reservation and no other field; and
\* releasing the same id again leaves the state as it is.
C10_ReleaseEffect ==
    [][ ReleaseStep
        => ( /\ IF result'.id \in HeldIds
                THEN /\ result'.ok
                     /\ Len(reservations') = Len(reservations)
                     /\ reservations'[result'.id] =
                            [reservations[result'.id] EXCEPT !.status = RELEASED]
                     /\ \A j \in HeldIds \ {result'.id} :
                            reservations'[j] = reservations[j]
                ELSE /\ ~result'.ok
                     /\ reservations' = reservations
             /\ UNCHANGED <<db_reservations, now, threads, mail>>
             /\ Released(reservations', result'.id) = reservations' ) ]_vars

\* a known reservation was released while another one stays active
C10_Witness ==
    /\ result.op = "release_reservation" /\ result.ok
    /\ reservations[result.id].status = RELEASED
    /\ \E j \in HeldIds : reservations[j].status = ACTIVE

\* the exceptions of a failed durable write
WriteErrors == {"sqlite3.Error", "OSError"}

\* C11: fail closed: if the durable write of reserve_files, create_issue or
\* update_issue fails, the in-memory state (reservations, issues including
\* the referenced issues' blocked_by) is exactly what it was before the call.
C11_FailClosed ==
    [][ (now' = now /\ result'.exc \in WriteErrors)
        => (reservations' = reservations /\ issues' = issues) ]_observed

\* the positions of the stored issues
StoredIssues == 1..Len(issues)

\* the ids of the stored issues
StoredIds == { issues[k].id : k \in StoredIssues }

\* C12: after any sequence of create_issue and update_issue calls, replaying
\* the issue log in order and keeping the last record per id yields a store
\* equal to the in-memory store for every issue and every field, blocked_by
\* included.
C12_ReplayEqualsStore ==
    LET replayed == LoadIssues(<<>>, issues_log, 1)
    IN  /\ { replayed[k].id : k \in 1..Len(replayed) } = StoredIds
        /\ \A id \in StoredIds : Get(replayed, id) = Get(issues, id)

\* C13: after every completed operation the durable reservation record
\* agrees with the in-memory reservation for every reservation id, in
\* particular on status.
C13_DurableAgrees ==
    /\ Len(db_reservations) = Len(reservations)
    /\ \A i \in HeldIds :
          /\ db_reservations[i].id = reservations[i].id
          /\ db_reservations[i].project_key = reservations[i].project_key
          /\ db_reservations[i].agent_name = reservations[i].agent_name
          /\ db_reservations[i].paths = reservations[i].paths
          /\ (db_reservations[i].exclusive = 1) = reservations[i].exclusive
          /\ db_reservations[i].status = reservations[i].status
          /\ db_reservations[i].created_at = reservations[i].created_at
          /\ db_reservations[i].expires_at = reservations[i].expires_at
          /\ db_reservations[i].ttl_seconds = reservations[i].ttl_seconds

\* the ids of a list of issue ids
Elems(list) == { list[k] : k \in 1..Len(list) }

\* the ids get_ready_issues returned
ReadyIds == Elems(result.active)

\* the stored issue at c names the stored issue at b in its blocking list,
\* and was linked to it when it was created
Linked(c, b) ==
    /\ b # c
    /\ issues[b].id \in Elems(issues[c].blocking)
    /\ issues[c].id \in Elems(issues[b].blocked_by)

\* C14 as stated: for C created with blocking=[B], B existing, and C.status
\* set to ready, get_ready_issues() excludes C in every state where
\* B.status != done and includes C in every state where B.status = done.
C14_WaitsForNamedIssue ==
    result.op = "get_ready_issues"
    => \A b, c \in StoredIssues :
          (Linked(c, b) /\ issues[c].status = "READY")
          => (issues[c].id \in ReadyIds <=> issues[b].status = "DONE")

\* every stored issue in the blocked_by of the issue at i has status done
BlockersDone(i) ==
    \A id \in Elems(issues[i].blocked_by) :
        id \in StoredIds => Get(issues, id).status = "DONE"

\* C14 amended: creating C with blocking=[B], B existing, puts C's id in
\* B.blocked_by: get_ready_issues() excludes B in every state where
\* C.status != done and includes B in every state where B.status = ready
\* and every stored issue in B.blocked_by has status done; C itself, when
\* its status is ready and its own blocked_by is empty, is included whatever
\* B.status is.
C14_NamedIssueWaits ==
    result.op = "get_ready_issues"
    => \A b, c \in StoredIssues :
          Linked(c, b)
          => /\ issues[c].status # "DONE" => issues[b].id \notin ReadyIds
             /\ (issues[b].status = "READY" /\ BlockersDone(b))
                => issues[b].id \in ReadyIds
             /\ (issues[c].status = "READY" /\ issues[c].blocked_by = <<>>)
                => issues[c].id \in ReadyIds

\* B, named by the later issue C, is returned once C is done, and was held
\* back in favour of C before
C14_Witness ==
    /\ result.op = "get_ready_issues"
    /\ \E b, c \in StoredIssues :
          /\ Linked(c, b)
          /\ issues[b].status = "READY"
          /\ issues[c].status = "DONE"
          /\ issues[b].id \in ReadyIds

\* the step is a call of create_issue that returned
CreateStep == now' = now /\ result'.op = "create_issue" /\ result'.ok

\* how often id occurs in a list
Occurrences(id, list) == Cardinality({ k \in 1..Len(list) : list[k] = id })

C16_Bidirectional ==
    \A a, b \in StoredIssues :
        issues[a].id \in Elems(issues[b].blocking)
        => issues[b].id \in Elems(issues[a].blocked_by)

\* C16 amended: for all stored issues A and B, if A's id is in B.blocking
\* and A was created before B (A.created_at < B.created_at), then B's id is
\* in A.blocked_by.
C16_BidirectionalOnCreate ==
    \A a, b \in StoredIssues :
        ( /\ issues[a].id \in Elems(issues[b].blocking)
          /\ issues[a].created_at < issues[b].created_at )
        => issues[b].id \in Elems(issues[a].blocked_by)

\* an edge made at the creation of the later issue, next to an issue that
\* named an id before the issue of that id was created
C16_Witness ==
    /\ \E a, b \in StoredIssues :
          /\ issues[a].id \in Elems(issues[b].blocking)
          /\ issues[a].created_at < issues[b].created_at
          /\ issues[b].id \in Elems(issues[a].blocked_by)
    /\ \E a, b \in StoredIssues :
          /\ issues[a].id \in Elems(issues[b].blocking)
          /\ issues[b].id \notin Elems(issues[a].blocked_by)

\* C17: get_ready_issues() returns exactly the issues whose status is ready
\* and for which every id in blocked_by that exists in the store has status
\* done; it never returns an issue whose status is backlog, in_progress,
\* done or blocked.
C17_ReadyExactly ==
    result.op = "get_ready_issues"
    => /\ ListsExactly(result.active,
                       { issues[i].id : i \in { j \in StoredIssues :
                             issues[j].status = "READY" /\ BlockersDone(j) } })
       /\ \A i \in StoredIssues :
             issues[i].status \in {"BACKLOG", "IN_PROGRESS", "DONE", "BLOCKED"}
             => issues[i].id \notin ReadyIds

\* the call returned one ready issue and held back another, ready but with
\* a blocker that is not done
C17_Witness ==
    /\ result.op = "get_ready_issues"
    /\ result.active # <<>>
    /\ \E i \in StoredIssues :
          /\ issues[i].status = "READY"
          /\ ~BlockersDone(i)
          /\ issues[i].id \notin ReadyIds

\* the ids that the issues of S wait for, directly or through others: the
\* blocked_by lists followed n times
RECURSIVE WaitsFor(_, _, _)
WaitsFor(S, seen, n) ==
    IF n = 0 \/ S = {} THEN seen
    ELSE LET next == UNION { Elems(Get(issues, id).blocked_by) \cap StoredIds : id \in S }
         IN  WaitsFor(next \ seen, seen \cup next, n - 1)

TransitiveBlockers(i) ==
    WaitsFor(Elems(issues[i].blocked_by) \cap StoredIds,
             Elems(issues[i].blocked_by) \cap StoredIds, Len(issues))

\* C18: in every reachable state the blocked_by relation among stored
\* issues contains no cycle: no issue is transitively blocked by itself.
C18_NoBlockedByCycle ==
    \A i \in StoredIssues : issues[i].id \notin TransitiveBlockers(i)

\* two issues name each other in blocking ("a blocks b blocks a"), and an
\* issue waits for another through a third
C18_Witness ==
    /\ \E a, b \in StoredIssues :
          /\ a # b
          /\ issues[a].id \in Elems(issues[b].blocking)
          /\ issues[b].id \in Elems(issues[a].blocking)
          /\ issues[b].id \in Elems(issues[a].blocked_by)
    /\ \E a, b, c \in StoredIssues :
          /\ issues[b].id \in Elems(issues[a].blocked_by)
          /\ issues[c].id \in Elems(issues[b].blocked_by)
          /\ issues[c].id \notin Elems(issues[a].blocked_by)
          /\ a # c

\* the transitions of the state machine of Issue.status
StatusMachine ==
    { <<"BACKLOG", "READY">>, <<"READY", "IN_PROGRESS">>, <<"IN_PROGRESS", "DONE">>,
      <<"BACKLOG", "BLOCKED">>, <<"READY", "BLOCKED">>, <<"IN_PROGRESS", "BLOCKED">>,
      <<"BLOCKED", "READY">> }

\* the step is a call of update_issue that found the issue
UpdateStep == now' = now /\ result'.op = "update_issue" /\ result'.ok

\* C19: every change of an issue's status made by update_issue follows the
\* state machine backlog -> ready -> in_progress -> done, with blocked
\* reachable from backlog/ready/in_progress and returning to ready.
C19_StatusMachine ==
    [][ UpdateStep
        => LET old == Get(issues, result'.id)
               new == Get(issues', result'.id)
           IN  new.status # old.status
               => <<old.status, new.status>> \in StatusMachine ]_observed

\* the fields of an issue that update_issue has no argument for
FrameFields ==
    {"id", "title", "description", "parent_id", "blocking", "blocked_by", "created_at"}

\* what a returned update_issue(issue_id, status, assignee, priority) did
UpdateEffect(issue_id, status, assignee, priority) ==
    LET old == Get(issues, issue_id)
        new == Get(issues', issue_id)
    IN  /\ Len(issues') = Len(issues)
        /\ \A o \in StoredIssues : issues[o].id # issue_id => issues'[o] = issues[o]
        /\ \A f \in FrameFields : new[f] = old[f]
        /\ status \in {None, ""} => new.status = old.status
        /\ assignee \in {None, ""} => new.assignee = old.assignee
        /\ priority \in {None, ""} => new.priority = old.priority
        /\ new.status \in {old.status, status}
        /\ new.assignee \in {old.assignee, assignee}
        /\ new.priority \in {old.priority, priority}
        /\ new.updated_at = now
        /\ Len(issues_log') = Len(issues_log) + 1
        /\ SubSeq(issues_log', 1, Len(issues_log)) = issues_log
        /\ DOMAIN issues_log'[Len(issues_log')] = DOMAIN new
        /\ IssueOfRecord(issues_log'[Len(issues_log')]) = new

\* C20: update_issue on an existing id changes only the supplied fields
\* among status, assignee and priority plus updated_at of that one issue,
\* leaves its id, title, description, parent_id, blocking, blocked_by and
\* created_at and every other issue unchanged, and appends exactly one
\* full-snapshot record to the log.
C20_UpdateFrame ==
    [][ \A issue_id \in StoredIds, args \in UpdateArgs :
          update_issue(issue_id, args[1], args[2], args[3])
          => UpdateEffect(issue_id, args[1], args[2], args[3]) ]_observed

\* an update that supplied the assignee only has returned, at a later time
\* than the creation, on an issue with a blocker, next to another issue
C20_Witness ==
    /\ result.op = "update_issue" /\ result.ok
    /\ Len(issues) > 1
    /\ Get(issues, result.id).assignee = "alice"
    /\ Get(issues, result.id).status = "BACKLOG"
    /\ Get(issues, result.id).priority = "medium"
    /\ Get(issues, result.id).blocked_by # <<>>
    /\ Get(issues, result.id).updated_at > Get(issues, result.id).created_at
    /\ IssueOfRecord(issues_log[Len(issues_log)]) = Get(issues, result.id)

\* C21: update_issue on an id not in the store returns the not-found signal
\* without raising, and leaves the in-memory store and the durable log
\* exactly unchanged: no record appended, no updated_at bumped.
C21_NotFoundUnchanged ==
    [][ (now' = now /\ result'.op = "update_issue" /\ ~Has(issues, result'.id))
        => ( /\ ~result'.ok
             /\ result'.exc = "none"
             /\ issues' = issues
             /\ issues_log' = issues_log ) ]_<<issues, issues_log, now, result.op, result.ok, result.exc>>

\* update_issue did not find the id it was given, in a store with an issue
C21_Witness ==
    /\ result.op = "update_issue" /\ ~result.ok
    /\ ~Has(issues, result.id)
    /\ issues # <<>>
    /\ issues_log # <<>>

\* updated_at does not decrease from a record to a later record of the same id
LogMonotone(lines) ==
    \A j, k \in 1..Len(lines) :
        (j < k /\ lines[j].id = lines[k].id)
        => fromisoformat(lines[j].updated_at) <= fromisoformat(lines[k].updated_at)

\* C22: the issue log is append-only and issues are never deleted: after any
\* operation the previous log is a prefix of the new log, each successful
\* create_issue or update_issue appends exactly one record, an id once
\* present in the store remains present in every later state, and for each
\* id updated_at is non-decreasing across its successive records.
C22_AppendOnly ==
    [][ /\ Len(issues_log') >= Len(issues_log)
        /\ SubSeq(issues_log', 1, Len(issues_log)) = issues_log
        /\ (CreateStep \/ UpdateStep) => Len(issues_log') = Len(issues_log) + 1
        /\ Len(issues_log') <= Len(issues_log) + 1
        /\ \A id \in StoredIds : Has(issues', id)
        /\ LogMonotone(issues_log') ]_observed

\* next to another issue, an issue has three records, the last written at a
\* later time than the one before
C22_Witness ==
    /\ Len(issues) > 1
    /\ \E i, j, k \in 1..Len(issues_log) :
          /\ i < j /\ j < k
          /\ issues_log[i].id = issues_log[j].id
          /\ issues_log[j].id = issues_log[k].id
          /\ fromisoformat(issues_log[j].updated_at) < fromisoformat(issues_log[k].updated_at)

\* the step is a call of register_agent that returned or raised
RegisterStep == result'.op = "register_agent" /\ uuids' # uuids

\* C23: re-registering an already registered name is idempotent per name:
\* the returned and stored agent keeps the id and registered_at of the first
\* registration, has last_active refreshed, and the existing mailbox of that
\* name is preserved.
C23_ReRegisterKeepsIdentity ==
    [][ (RegisterStep /\ result'.agent_name \in DOMAIN agents)
        => LET name == result'.agent_name
           IN  /\ agents'[name].id = agents[name].id
               /\ result'.id = agents[name].id
               /\ agents'[name].registered_at = agents[name].registered_at
               /\ agents'[name].last_active = now
               /\ InboxOf(messages', name) = InboxOf(messages, name) ]_observed

\* C24: register_agent with an empty name fails with ValidationError and
\* leaves the agent registry, the mailboxes and the durable store unchanged.
C24_EmptyNameRejected ==
    [][ (RegisterStep /\ result'.agent_name = NoName)
        => ( /\ ~result'.ok
             /\ result'.exc = "ValidationError"
             /\ agents' = agents
             /\ messages' = messages
             /\ db_agents' = db_agents
             /\ db_messages' = db_messages ) ]_observed

\* the step is a call of send_message that returned
SendStep == result'.op = "send_message" /\ uuids' # uuids

\* the last element of a list
Last(list) == list[Len(list)]

\* C27: send_message succeeds for any recipient, registered or not; it
\* appends exactly one message at the end of the recipient's mailbox and
\* leaves every other mailbox, including the sender's, unchanged.
C27_SendAppends ==
    [][ SendStep
        => LET recipient == result'.agent_name
           IN  /\ result'.ok
               /\ DOMAIN messages' = DOMAIN messages \cup {recipient}
               /\ Len(messages'[recipient]) = Len(InboxOf(messages, recipient)) + 1
               /\ messages'[recipient] =
                    Append(InboxOf(messages, recipient), Last(messages'[recipient]))
               /\ Last(messages'[recipient]).id = result'.id
               /\ Last(messages'[recipient]).recipient = recipient
               /\ \A name \in DOMAIN messages \ {recipient} :
                     messages'[name] = messages[name] ]_observed

\* a second message has reached bob, who never registered, while the inbox
\* of the sender holds what she wrote to herself before
C27_Witness ==
    /\ result.op = "send_message"
    /\ result.agent_name = "bob"
    /\ "bob" \notin DOMAIN agents
    /\ Len(messages["bob"]) > 1
    /\ Last(messages["bob"]).sender = "alice"
    /\ "alice" \in DOMAIN messages
    /\ messages["alice"] # <<>>

\* the rows of table messages sent to the agent at since_ts or later
SentSince(agent_name, since_ts) ==
    { k \in 1..Len(db_messages) :
        /\ db_messages[k].recipient = agent_name
        /\ since_ts = NoTime \/ fromisoformat(db_messages[k].created_at) >= since_ts }

\* C28: fetch_inbox(agent, since=T) returns exactly the messages sent to
\* agent whose created_at >= T (all of them when since is absent), each
\* once, ordered by descending created_at.
C28_FetchSince ==
    result.op = "fetch_inbox"
    => /\ Len(result.active) = Cardinality(SentSince(result.agent_name, result.id))
       /\ { MessageRow(result.active[k]) : k \in 1..Len(result.active) }
            = { db_messages[k] : k \in SentSince(result.agent_name, result.id) }
       /\ \A i, j \in 1..Len(result.active) :
             i < j => result.active[i].created_at >= result.active[j].created_at

\* fetch_inbox with since_ts = 1 returned a message created at 1 and left
\* out a message created before
C28_Witness ==
    /\ result.op = "fetch_inbox"
    /\ result.id = 1
    /\ \E k \in 1..Len(result.active) : result.active[k].created_at = 1
    /\ \E k \in 1..Len(InboxOf(messages, result.agent_name)) :
          messages[result.agent_name][k].created_at = 0

\* C29 as stated: in any fetch_inbox result, messages appear in strictly
\* decreasing created_at order, and two messages with equal created_at
\* appear in the order in which they were sent.
C29_StrictlyDecreasing ==
    result.op = "fetch_inbox"
    => \A i, j \in 1..Len(result.active) :
          i < j => result.active[i].created_at > result.active[j].created_at

\* the place of the message in the inbox it was fetched from
PlaceInInbox(message) ==
    CHOOSE k \in 1..Len(messages[message.recipient]) :
        messages[message.recipient][k].id = message.id

\* C29 amended: in any fetch_inbox result, created_at never increases from
\* a message to the next, and two messages with equal created_at appear in
\* the order in which they were sent (insertion order).
C29_NewestFirstStable ==
    result.op = "fetch_inbox"
    => \A i, j \in 1..Len(result.active) :
          i < j
          => /\ result.active[i].created_at >= result.active[j].created_at
             /\ result.active[i].created_at = result.active[j].created_at
                => PlaceInInbox(result.active[i]) < PlaceInInbox(result.active[j])

\* the result holds two messages of the same time and an earlier one
C29_Witness ==
    /\ result.op = "fetch_inbox"
    /\ \E i, j, k \in 1..Len(result.active) :
          /\ i < j /\ j < k
          /\ result.active[i].created_at = result.active[j].created_at
          /\ result.active[j].created_at > result.active[k].created_at

\* C30: a message sent without a thread_id has thread_id equal to its own
\* id; a message sent with a thread_id keeps exactly the supplied value.
C30_ThreadDefaultsToOwnId ==
    [][ \A recipient \in Agents, thread_id \in ThreadIds :
          send_message("default", "alice", recipient, "subject", "body", thread_id)
          => LET message == Last(messages'[recipient])
             IN  IF thread_id = None THEN message.thread_id = message.id
                 ELSE message.thread_id = thread_id ]_observed

\* C25: for two concurrent mailbox mutations on the same recipient (two
\* send_message calls to a recipient with no mailbox yet, or a send_message
\* and a register_agent), no interleaving loses a message: every message
\* whose send returned is in the mailbox of its recipient.
C25_NoMessageLost ==
    \A k \in 1..Len(db_messages) :
        /\ db_messages[k].recipient \in DOMAIN messages
        /\ \E j \in 1..Len(messages[db_messages[k].recipient]) :
              messages[db_messages[k].recipient][j].id = db_messages[k].id

\* the last line of issues.jsonl written for the id
LastRecord(id) ==
    issues_log[CHOOSE k \in 1..Len(issues_log) :
                  /\ issues_log[k].id = id
                  /\ \A j \in (k + 1)..Len(issues_log) : issues_log[j].id # id]

\* C26: once two concurrent create_issue calls naming the same existing
\* issue B in blocking (or one such call concurrent with update_issue on B)
\* have returned, B.blocked_by contains every new id and the last log record
\* of B reflects B as it is in memory.
C26_BlockedByKeptAndLogged ==
    (issues # <<>> /\ UnderWay = 0)
    => /\ \A k \in 2..Len(issues) :
             issues[1].id \in Elems(issues[k].blocking)
             => issues[k].id \in Elems(issues[1].blocked_by)
       /\ LastRecord(issues[1].id) = IssueRecord(issues[1])

\* the step is a call of fetch_inbox
FetchStep == now' = now /\ result'.op = "fetch_inbox"

\* C31: fetch_inbox is a pure read: it changes no mailbox, creates no
\* mailbox for an unknown agent and never sets a message's read flag; and
\* no operation changes any field of a message after it was created, in the
\* mailbox or in table messages.
C31_FetchReadsOnly ==
    [][ /\ FetchStep
           => ( /\ messages' = messages
                /\ db_messages' = db_messages
                /\ agents' = agents
                /\ \A k \in 1..Len(result'.active) : ~result'.active[k].read )
        /\ \A name \in DOMAIN messages :
              /\ name \in DOMAIN messages'
              /\ Len(messages'[name]) >= Len(messages[name])
              /\ \A k \in 1..Len(messages[name]) : messages'[name][k] = messages[name][k]
        /\ \A k \in 1..Len(db_messages) :
              /\ Len(db_messages') >= k
              /\ db_messages'[k] = db_messages[k]
      ]_<<messages, db_messages, agents, now, result.op>>

\* fetch_inbox was called for alice, who has no mailbox, after bob got mail
\* and after the clock moved
C31_Witness ==
    /\ result.op = "fetch_inbox"
    /\ result.agent_name = "alice"
    /\ "alice" \notin DOMAIN messages
    /\ "bob" \in DOMAIN messages
    /\ Len(messages["bob"]) > 1
    /\ \E k \in 1..Len(messages["bob"]) : messages["bob"][k].created_at < now

\* the sender of the message a send_message step has delivered
SenderOf(boxes, recipient) == Last(boxes[recipient]).sender

\* C32: after any action performed under a registered agent's name (here
\* send_message as sender), that agent's last_active is at least the time
\* of the action; and a registered agent is never removed from the registry.
C32_LastActiveFollows ==
    [][ /\ \A name \in DOMAIN agents : name \in DOMAIN agents'
        /\ (SendStep /\ SenderOf(messages', result'.agent_name) \in DOMAIN agents')
           => agents'[SenderOf(messages', result'.agent_name)].last_active >= now
      ]_observed

\* the ids of the stored issues that pass the filters supplied
Matching(status, assignee, blocked) ==
    { issues[k].id : k \in
        { k \in StoredIssues :
            /\ Truthy(status) => issues[k].status = status
            /\ Truthy(assignee) => issues[k].assignee = assignee
            /\ blocked => (issues[k].blocked_by # <<>> /\ issues[k].status # "BLOCKED") } }

\* C33: list_issues returns the issues matching every supplied filter
\* (status equal, assignee equal, and when blocked=true: non-empty
\* blocked_by and status != blocked), each once, sorted by created_at
\* descending, and changes no state.
C33_ListIssues ==
    [][ (now' = now /\ result'.op = "list_issues")
        => ( /\ ListsExactly(result'.active,
                             Matching(result'.id[1], result'.id[2], result'.id[3]))
             /\ \A i, j \in 1..Len(result'.active) :
                   i < j => Get(issues, result'.active[i]).created_at
                              >= Get(issues, result'.active[j]).created_at
             /\ issues' = issues
             /\ issues_log' = issues_log
             /\ result'.ok )
      ]_<<issues, issues_log, now, result.op, result.active>>

\* list_issues returned two of three stored issues, the newer one first
C33_Witness ==
    /\ result.op = "list_issues"
    /\ Len(issues) = 3
    /\ Len(result.active) = 2
    /\ Get(issues, result.active[1]).created_at > Get(issues, result.active[2]).created_at

\* asking for `paths` as `agent_name` raises on reservation res exactly when
\* asking for the paths of res as its holder raises on a reservation of
\* `agent_name` with `paths`
SymmetricOn(res, agent_name, paths) ==
    RaisesOn(res, agent_name, paths)
    <=> RaisesOn([res EXCEPT !.agent_name = agent_name, !.paths = paths],
                 res.agent_name, res.paths)

\* C34: overlap detection has no false conflicts and is symmetric: a
\* reserve_files call is refused only if a path it asks for is a prefix of,
\* equal to, or extended by a path of another agent's reservation with
\* status active; and for path sets P and Q of different agents, asking for
\* P against held Q conflicts exactly when asking for Q against held P does.
C34_NoFalseConflictSymmetric ==
    /\ (result.op = "reserve_files" /\ ~result.ok)
       => \E i \in HeldIds : OtherActiveOverlap(i, result.agent_name, result.paths)
    /\ \A i \in HeldIds, agent_name \in Agents, paths \in PathLists :
          agent_name # reservations[i].agent_name
          => /\ SymmetricOn(reservations[i], agent_name, paths)
             /\ RaisesOn(reservations[i], agent_name, paths)
                <=> (reservations[i].status = ACTIVE
                     /\ PathsOverlap(paths, reservations[i].paths))

\* a reserve_files call succeeded next to an active, unexpired reservation
\* of another agent on paths that do not overlap the ones asked for
C34_Witness ==
    /\ result.op = "reserve_files" /\ result.ok
    /\ \E i \in HeldIds \ {result.id} :
          /\ reservations[i].agent_name # result.agent_name
          /\ reservations[i].status = ACTIVE /\ Unexpired(reservations[i])
          /\ Unexpired(reservations[result.id])
          /\ ~PathsOverlap(reservations[i].paths, result.paths)

\* C35: a reserve_files call that fails with a conflict adds no reservation
\* to the in-memory table or the durable store and changes no existing
\* reservation; and reserve_files, whether it succeeds or fails, never
\* changes the status of any existing reservation (no expiry sweep).
C35_ReserveFrame ==
    [][ ReserveStep
        => ( /\ \A i \in HeldIds :
                   /\ i \in 1..Len(reservations')
                   /\ reservations'[i] = reservations[i]
             /\ \A i \in 1..Len(db_reservations) :
                   /\ i \in 1..Len(db_reservations')
                   /\ db_reservations'[i] = db_reservations[i]
             /\ ~result'.ok
                => (reservations' = reservations /\ db_reservations' = db_reservations) )
      ]_vars

\* a refused call has left a reservation active whose expires_at has passed
C35_Witness ==
    /\ result.op = "reserve_files" /\ ~result.ok
    /\ \E i \in HeldIds :
          /\ reservations[i].status = ACTIVE
          /\ reservations[i].expires_at <= now
          /\ reservations[i].agent_name = result.err_agent

\* C36: get_ready_issues does not modify any issue or the log, and no
\* operation other than update_issue ever changes an issue's status: the
\* status stored under an id changes only in an update_issue call on that id.
C36_OnlyUpdateChangesStatus ==
    [][ /\ result'.op = "get_ready_issues"
           => (issues' = issues /\ issues_log' = issues_log)
        /\ \A k \in StoredIssues :
              /\ Has(issues', issues[k].id)
              /\ Get(issues', issues[k].id).status # issues[k].status
                 => (result'.op = "update_issue" /\ result'.id = issues[k].id)
      ]_<<issues, issues_log, result.op>>

\* C39: in every reachable state, for all stored issues B and every id c in
\* B.blocked_by, c is the id of a stored issue whose blocking list contains
\* B's id, and that issue was created after B (not before it).
C39_BlockedByHasNamingIssue ==
    \A k \in StoredIssues :
        \A c \in Elems(issues[k].blocked_by) :
            /\ Has(issues, c)
            /\ issues[k].id \in Elems(Get(issues, c).blocking)
            /\ Get(issues, c).created_at >= issues[k].created_at

\* the table with the exclusive flag of reservation i set to flags[i]
Flagged(table, flags) ==
    [i \in 1..Len(table) |-> [table[i] EXCEPT !.exclusive = flags[i]]]

\* C37: the exclusive flag has no influence on conflict detection: whatever
\* exclusive flags the reservations of the table had been given, every
\* reserve_files call meets the same outcome (success, or a conflict with
\* the same reservation); so two reservations of different agents on
\* overlapping paths never both have status active, exclusive or not.
C37_ExclusiveIgnored ==
    /\ \A flags \in [HeldIds -> BOOLEAN], agent_name \in Agents, paths \in PathLists :
          ConflictScan(Flagged(reservations, flags), 1, agent_name, paths)
            = ConflictScan(reservations, 1, agent_name, paths)
    /\ \A i, j \in HeldIds :
          ( /\ reservations[i].agent_name # reservations[j].agent_name
            /\ reservations[i].status = ACTIVE
            /\ reservations[j].status = ACTIVE )
          => ~PathsOverlap(reservations[i].paths, reservations[j].paths)

\* a call was refused because of a reservation that is not exclusive, while
\* the caller holds a reservation that is not exclusive either
C37_Witness ==
    /\ result.op = "reserve_files" /\ ~result.ok
    /\ \E i, j \in HeldIds :
          /\ reservations[i].agent_name = result.err_agent
          /\ reservations[i].status = ACTIVE
          /\ ~reservations[i].exclusive
          /\ PathsOverlap(reservations[i].paths, result.paths)
          /\ reservations[j].agent_name = result.agent_name
          /\ ~reservations[j].exclusive

\* C38 as stated: conflict detection spans all project keys while lazy
\* expiry is per project: a reservation with status active blocks another
\* agent's overlapping reserve_files under any project, and one whose
\* expires_at has passed keeps blocking until get_active_reservations is
\* called for its own project, after which it never blocks again.
C38_BlocksUntilSwept ==
    [][ /\ ReserveStep
           => ( result'.ok
                <=> ~\E i \in HeldIds :
                        OtherActiveOverlap(i, result'.agent_name, result'.paths) )
        /\ \A i \in HeldIds :
              /\ i \in 1..Len(reservations')
              /\ reservations[i].status # ACTIVE => reservations'[i].status # ACTIVE
              /\ ( /\ reservations[i].status = ACTIVE
                   /\ reservations[i].expires_at <= now
                   /\ reservations'[i].status # ACTIVE )
                 => /\ GetActiveStep
                    /\ result'.project_key = reservations[i].project_key
      ]_vars

\* C38 amended: conflict detection spans all project keys while lazy expiry
\* is per project: a reservation with status active blocks another agent's
\* overlapping reserve_files under any project, also once its expires_at
\* has passed; it stays active until it is released or
\* get_active_reservations is called for its own project at or after its
\* expiry (a call for another project leaves it as it is), and a
\* reservation that is no longer active never is active, or blocks, again.
C38_BlocksAcrossProjectsUntilSwept ==
    [][ /\ ReserveStep
           => ( result'.ok
                <=> ~\E i \in HeldIds :
                        OtherActiveOverlap(i, result'.agent_name, result'.paths) )
        /\ \A i \in HeldIds :
              /\ i \in 1..Len(reservations')
              /\ reservations[i].status # ACTIVE => reservations'[i].status # ACTIVE
              /\ (reservations[i].status = ACTIVE /\ reservations'[i].status # ACTIVE)
                 => \/ ReleaseStep /\ result'.id = i
                    \/ /\ GetActiveStep
                       /\ result'.project_key = reservations[i].project_key
                       /\ reservations[i].expires_at <= now
                       /\ reservations'[i].status = EXPIRED
              /\ ( /\ GetActiveStep
                   /\ result'.project_key = reservations[i].project_key
                   /\ reservations[i].status = ACTIVE
                   /\ reservations[i].expires_at <= now )
                 => reservations'[i].status = EXPIRED
      ]_vars

\* a call under one project was refused because of a reservation of the
\* other project whose expires_at has passed
C38_Witness ==
    /\ result.op = "reserve_files" /\ ~result.ok
    /\ \E i \in HeldIds :
          /\ reservations[i].agent_name = result.err_agent
          /\ reservations[i].status = ACTIVE
          /\ reservations[i].expires_at < now
          /\ reservations[i].project_key # result.project_key

====
